---- MODULE Spec2Model ----
(***************************************************************************)
(* thrift-gen-rpc-swagger: OpenAPIv3Generator.BuildDocument                *)
(* (generator/generator.go) as a state machine.  The parsed IDL (ast) is   *)
(* chosen in Init; BuildDocument then runs step by step: one action per    *)
(* iteration of the loops of addPathsToDocument, one action per call,      *)
(* struct visit and return of addSchemasForStructsToDocument, and one      *)
(* action for each post-processing block.                                  *)
(*                                                                         *)
(* Strings: names are Go strings.  Path templates are sequences of         *)
(* one-character strings so that the placeholder rewrite and the byte-wise *)
(* comparison of sort.Slice can be computed.  Struct, service and function *)
(* names of the enumerated inputs are one character long, so that their    *)
(* byte-wise order is the order of Ascii.                                  *)
(***************************************************************************)
EXTENDS Integers, Sequences, FiniteSets, TLC

\* Largest number of struct-typed fields (direct or list) in the struct graph
\* of the enumerated inputs.
MaxEdges == 3

\* Annotations[key] of length 0 (the annotation is not on the element).
Absent == "~"

-----------------------------------------------------------------------------
(* utils helpers *)

Contains(seq, x) == \E i \in 1..Len(seq) : seq[i] = x

AppendUnique(seq, x) == IF Contains(seq, x) THEN seq ELSE Append(seq, x)

\* Byte values of the characters used in names and path templates.
Ascii(c) ==
    CASE c = "/" -> 47
      [] c = ":" -> 58
      [] c = "A" -> 65
      [] c = "B" -> 66
      [] c = "C" -> 67
      [] c = "D" -> 68
      [] c = "R" -> 82
      [] c = "S" -> 83
      [] c = "T" -> 84
      [] c = "_" -> 95
      [] c = "a" -> 97
      [] c = "b" -> 98
      [] c = "i" -> 105
      [] c = "{" -> 123
      [] c = "}" -> 125

\* Go's < on one-character strings.
NameLess(a, b) == Ascii(a) < Ascii(b)

\* Go's < on strings given as character sequences (byte-wise lexicographic).
RECURSIVE PathLess(_, _)
PathLess(p, q) ==
    IF q = <<>> THEN FALSE
    ELSE IF p = <<>> THEN TRUE
    ELSE IF Head(p) # Head(q) THEN Ascii(Head(p)) < Ascii(Head(q))
    ELSE PathLess(Tail(p), Tail(q))

-----------------------------------------------------------------------------
(* thrift_reflection.TypeDescriptor: a base type under a sequence of       *)
(* containers, outermost first; list<map<string,A>> is                     *)
(* [base |-> "A", struct |-> TRUE, wrap |-> <<"list","map">>].             *)

TPrim(n) == [base |-> n, struct |-> FALSE, wrap |-> <<>>]
TStruct(n) == [base |-> n, struct |-> TRUE, wrap |-> <<>>]
\* A struct type whose descriptor is in no registered file.
TUnresolved(n) == [base |-> n, struct |-> TRUE, wrap |-> <<>>, err |-> TRUE]
TList(t) == [t EXCEPT !.wrap = <<"list">> \o @]
TMap(t) == [t EXCEPT !.wrap = <<"map">> \o @]

IsStruct(t) == t.wrap = <<>> /\ t.struct
IsList(t) == t.wrap # <<>> /\ Head(t.wrap) = "list"
IsMap(t) == t.wrap # <<>> /\ Head(t.wrap) = "map"
GetValueType(t) == [t EXCEPT !.wrap = Tail(@)]
\* fieldType.GetStructDescriptor() returns an error.
GetStructDescriptorErr(t) == "err" \in DOMAIN t

(* openapi.SchemaOrReference: a leaf (reference or primitive schema) under  *)
(* a sequence of "array" (Items) and "object" (AdditionalProperties)       *)
(* schemas, outermost first.                                               *)
NilSchema == [wrap |-> <<>>, ref |-> "", type |-> "nil", format |-> ""]
RefSchema(x) == [wrap |-> <<>>, ref |-> x, type |-> "", format |-> ""]
KindSchema(t, f) == [wrap |-> <<>>, ref |-> "", type |-> t, format |-> f]
WrapSchema(k, s) == [s EXCEPT !.wrap = <<k>> \o @]

\* Annotation keys.
ApiGet == "api.get"
ApiPost == "api.post"
ApiPut == "api.put"
ApiPatch == "api.patch"
ApiDelete == "api.delete"
ApiOptions == "api.options"
ApiHEAD == "api.head"
ApiAny == "api.any"
ApiQuery == "api.query"
ApiForm == "api.form"
ApiPath == "api.path"
ApiHeader == "api.header"
ApiCookie == "api.cookie"
ApiBody == "api.body"
ApiRawBody == "api.raw_body"

HttpMethodAnnotations ==
    (ApiGet :> "GET") @@ (ApiPost :> "POST") @@ (ApiPut :> "PUT") @@
    (ApiPatch :> "PATCH") @@ (ApiDelete :> "DELETE") @@
    (ApiOptions :> "OPTIONS") @@ (ApiHEAD :> "HEAD") @@ (ApiAny :> "ANY")

-----------------------------------------------------------------------------
(* Type-to-schema mapping *)

\* schemaReferenceForMessage: record the name as required, return the
\* name the reference "#/components/schemas/" + name points to.
schemaReferenceForMessage(req, schemaName) ==
    [ref |-> schemaName,
     req |-> IF ~Contains(req, schemaName) THEN Append(req, schemaName) ELSE req]

\* The chain of fieldType.GetName() comparisons of schemaOrReferenceForField.
PrimitiveSchema(name) ==
    CASE name = "string" -> KindSchema("string", "")
      [] name = "binary" -> KindSchema("string", "binary")
      [] name = "bool"   -> KindSchema("boolean", "")
      [] name = "byte"   -> KindSchema("string", "byte")
      [] name = "double" -> KindSchema("number", "double")
      [] name = "i8"     -> KindSchema("integer", "int8")
      [] name = "i16"    -> KindSchema("integer", "int16")
      [] name = "i32"    -> KindSchema("integer", "int32")
      [] name = "i64"    -> KindSchema("integer", "int64")
      [] OTHER           -> NilSchema

\* A mapping that looks at the outermost container and the base type only.
schemaOrReferenceForFieldShallow(req, fieldType) ==
    IF IsStruct(fieldType)
    THEN [s |-> RefSchema(fieldType.base), req |-> req]
    ELSE IF IsMap(fieldType)
    THEN [s |-> WrapSchema("object", PrimitiveSchema(fieldType.base)), req |-> req]
    ELSE IF IsList(fieldType)
    THEN [s |-> WrapSchema("array", PrimitiveSchema(fieldType.base)), req |-> req]
    ELSE [s |-> PrimitiveSchema(fieldType.base), req |-> req]

\* schemaOrReferenceForField: the schema of a type and the requiredSchemas
\* after the call.
RECURSIVE schemaOrReferenceForField(_, _)
schemaOrReferenceForField(req, fieldType) ==
    IF IsStruct(fieldType)
    THEN IF GetStructDescriptorErr(fieldType)
         THEN [s |-> NilSchema, req |-> req]
         ELSE LET r == schemaReferenceForMessage(req, fieldType.base)
              IN  [s |-> RefSchema(r.ref), req |-> r.req]
    ELSE IF IsMap(fieldType)
    THEN LET v == schemaOrReferenceForField(req, GetValueType(fieldType))
         IN  [s |-> WrapSchema("object", v.s), req |-> v.req]
    ELSE IF IsList(fieldType)
    THEN LET v == schemaOrReferenceForField(req, GetValueType(fieldType))
         IN  [s |-> WrapSchema("array", v.s), req |-> v.req]
    ELSE [s |-> PrimitiveSchema(fieldType.base), req |-> req]

\* A loop that makes a property of every field, annotated or not.
RECURSIVE getSchemaByOptionLoopAll(_, _, _, _)
getSchemaByOptionLoopAll(req, fields, option, props) ==
    IF fields = <<>> THEN [props |-> props, req |-> req]
    ELSE LET fs == schemaOrReferenceForField(req, Head(fields).type)
         IN  getSchemaByOptionLoopAll(fs.req, Tail(fields), option,
                 Append(props, [name |-> Head(fields).name, value |-> fs.s]))

\* getSchemaByOption, the loop over the fields from props on: the properties
\* of the fields that carry the annotation `option`.
RECURSIVE getSchemaByOptionLoop(_, _, _, _)
getSchemaByOptionLoop(req, fields, option, props) ==
    IF fields = <<>> THEN [props |-> props, req |-> req]
    ELSE LET field == Head(fields) IN
         IF field.ann[option] = Absent
         THEN getSchemaByOptionLoop(req, Tail(fields), option, props)
         ELSE LET extName == IF field.ann[option] # "" THEN field.ann[option]
                             ELSE field.name
                  fs == schemaOrReferenceForField(req, field.type)
              IN  IF fs.s = NilSchema
                  THEN getSchemaByOptionLoop(fs.req, Tail(fields), option, props)
                  ELSE getSchemaByOptionLoop(fs.req, Tail(fields), option,
                           Append(props, [name |-> extName, value |-> fs.s]))

\* extSchema == nil: the struct has no openapi.schema annotation.
NoSchemaOverride == [fields |-> {}, type |-> "", title |-> "", required |-> <<>>]

\* utils.ParseStructOption(desc, OpenapiSchema, &extSchema): the override
\* is [fields, type, title, required], fields the schema fields it sets.
ParseStructOption(desc) ==
    IF "schema" \in DOMAIN desc THEN desc.schema ELSE NoSchemaOverride

\* utils.MergeStructs(schema, extSchema): the fields the openapi.schema
\* override sets replace the generated ones.
MergeSchema(schema, ext) ==
    [type |-> IF "type" \in ext.fields THEN ext.type ELSE schema.type,
     title |-> IF "title" \in ext.fields THEN ext.title ELSE schema.title,
     required |-> IF "required" \in ext.fields THEN ext.required ELSE schema.required]

\* getSchemaByOption: allRequired, the Required of the override if it has one.
AllRequired(ext) == IF "required" \in ext.fields THEN ext.required ELSE <<>>

\* getSchemaByOption, the loop over the fields: the list `required` of the
\* property names of the bucket that allRequired holds.
RECURSIVE RequiredNames(_, _, _)
RequiredNames(fields, option, allRequired) ==
    IF fields = <<>> THEN <<>>
    ELSE LET field == Head(fields)
             extName == IF field.ann[option] # "" THEN field.ann[option]
                        ELSE field.name
         IN  (IF field.ann[option] # Absent /\ Contains(allRequired, extName)
              THEN <<extName>> ELSE <<>>)
             \o RequiredNames(Tail(fields), option, allRequired)

\* A getSchemaByOption that leaves the merged Required in place.
KeepRequired(schema, required) == schema

\* getSchemaByOption: schema.Required = required, after the merge.
SetRequired(schema, required) == [schema EXCEPT !.required = required]

\* getSchemaByOption after the loop l = [props, req]: the object schema with
\* the properties, the override merged onto it, Required set last.
SchemaByOption(l, merged) ==
    [props |-> l.props, req |-> l.req, type |-> merged.type,
     title |-> merged.title, required |-> merged.required]

getSchemaByOption(req, inputDesc, option) ==
    SchemaByOption(
        getSchemaByOptionLoop(req, inputDesc.fields, option, <<>>),
        SetRequired(
            MergeSchema([type |-> "object", title |-> "", required |-> <<>>],
                        ParseStructOption(inputDesc)),
            RequiredNames(inputDesc.fields, option,
                          AllRequired(ParseStructOption(inputDesc)))))

\* A NamedSchemaOrReference that holds the schema s under the name name.
NamedSchema(name, s) ==
    [name |-> name, props |-> s.props, type |-> s.type, title |-> s.title,
     required |-> s.required]

\* A NamedMediaType whose schema is s.
NamedMediaType(name, s) == NamedSchema(name, s)

\* An addSchemaToDocument without the test of generatedSchemas.
addSchemaToDocumentUnguarded(g, schema) ==
    [g EXCEPT !.gen = Append(@, schema.name), !.schemas = Append(@, schema)]

\* addSchemaToDocument on g = [req, gen, schemas] (requiredSchemas,
\* generatedSchemas, Components.Schemas.AdditionalProperties).
addSchemaToDocument(g, schema) ==
    IF Contains(g.gen, schema.name) THEN g
    ELSE [g EXCEPT !.gen = Append(@, schema.name),
                   !.schemas = Append(@, schema)]

\* getResponseForStruct, the loop over the header fields.
RECURSIVE ResponseHeaders(_, _, _)
ResponseHeaders(req, fields, headers) ==
    IF fields = <<>> THEN [headers |-> headers, req |-> req]
    ELSE LET field == Head(fields) IN
         IF field.ann[ApiHeader] = Absent \/ field.ann[ApiHeader] = ""
         THEN ResponseHeaders(req, Tail(fields), headers)
         ELSE LET fs == schemaOrReferenceForField(req, field.type)
              IN  ResponseHeaders(fs.req, Tail(fields),
                      Append(headers, [name |-> field.ann[ApiHeader], schema |-> fs.s]))

\* A getResponseForStruct that refers to the struct and never emits it.
getResponseForStructUnemitted(g, desc) ==
    LET h    == ResponseHeaders(g.req, desc.fields, <<>>)
        body == getSchemaByOption(h.req, desc, ApiBody)
        raw  == getSchemaByOption(body.req, desc, ApiRawBody)
    IN  [name |-> "200", headers |-> h.headers,
         content |-> (IF Len(body.props) > 0
                      THEN <<[name |-> "application/json", ref |-> desc.name]>>
                      ELSE <<>>)
                     \o (IF Len(raw.props) > 0
                         THEN <<[name |-> "application/octet-stream", ref |-> desc.name]>>
                         ELSE <<>>),
         g |-> [g EXCEPT !.req = raw.req]]

getResponseForStruct(g, desc) ==
    LET h    == ResponseHeaders(g.req, desc.fields, <<>>)
        body == getSchemaByOption(h.req, desc, ApiBody)
        raw  == getSchemaByOption(body.req, desc, ApiRawBody)
        g0   == [g EXCEPT !.req = raw.req]
        g1   == IF Len(body.props) > 0
                THEN addSchemaToDocument(g0, NamedSchema(desc.name, body))
                ELSE g0
        g2   == IF Len(raw.props) > 0
                THEN addSchemaToDocument(g1, NamedSchema(desc.name, raw))
                ELSE g1
        c1   == IF Len(body.props) > 0
                THEN <<[name |-> "application/json", ref |-> desc.name]>> ELSE <<>>
        c2   == IF Len(raw.props) > 0
                THEN <<[name |-> "application/octet-stream", ref |-> desc.name]>> ELSE <<>>
    IN  [name |-> "200", headers |-> h.headers, content |-> c1 \o c2, g |-> g2]

-----------------------------------------------------------------------------
(* Operation builder *)

\* A location block that never sets required.
LocationBlockNotRequired(st, v, key, paramIn, setsRequired) ==
    IF v.ann[key] # Absent /\ v.ann[key] # ""
    THEN [in |-> paramIn, name |-> v.ann[key],
          schema |-> schemaOrReferenceForField(st.req, v.type).s,
          required |-> st.required,
          req |-> schemaOrReferenceForField(st.req, v.type).req]
    ELSE st

\* A location block that keeps the location of an earlier block.
LocationBlockFirstWins(st, v, key, paramIn, setsRequired) ==
    IF v.ann[key] # Absent /\ v.ann[key] # "" /\ st.in = ""
    THEN [in |-> paramIn, name |-> v.ann[key],
          schema |-> schemaOrReferenceForField(st.req, v.type).s,
          required |-> (st.required \/ setsRequired),
          req |-> schemaOrReferenceForField(st.req, v.type).req]
    ELSE st

\* One of the four location blocks of the parameter loop of buildOperation:
\* st = [in, name, schema, required, req] are the loop's locals paramIn,
\* paramName, fieldSchema, required and g.requiredSchemas.
LocationBlock(st, v, key, paramIn, setsRequired) ==
    IF v.ann[key] # Absent /\ v.ann[key] # ""
    THEN LET fs == schemaOrReferenceForField(st.req, v.type)
         IN  [in |-> paramIn, name |-> v.ann[key], schema |-> fs.s,
              required |-> (st.required \/ setsRequired), req |-> fs.req]
    ELSE st

\* utils.MergeStructs(parameter, extParameter): the fields the
\* openapi.parameter override sets replace the generated ones.
MergeParameter(parameter, ext) ==
    [parameter EXCEPT !.required = IF "required" \in ext.fields
                                   THEN ext.required ELSE @]

\* The parameter loop of buildOperation over the fields from parameters on.
RECURSIVE BuildParameters(_, _, _)
BuildParameters(req, fields, parameters) ==
    IF fields = <<>> THEN [parameters |-> parameters, req |-> req]
    ELSE LET v  == Head(fields)
             s0 == [in |-> "", name |-> "", schema |-> NilSchema,
                    required |-> FALSE, req |-> req]
             s1 == LocationBlock(s0, v, ApiQuery, "query", FALSE)
             s2 == LocationBlock(s1, v, ApiPath, "path", TRUE)
             s3 == LocationBlock(s2, v, ApiCookie, "cookie", FALSE)
             s4 == LocationBlock(s3, v, ApiHeader, "header", FALSE)
             parameter == MergeParameter(
                 [name |-> s4.name, in |-> s4.in, required |-> s4.required,
                  schema |-> s4.schema], v.parameter)
         IN  IF s4.name # "" /\ s4.in # ""
             THEN BuildParameters(s4.req, Tail(fields), Append(parameters, parameter))
             ELSE BuildParameters(s4.req, Tail(fields), parameters)

\* A test that lets only POST have a request body.
HasRequestBodyOnPost(methodName) == methodName = "POST"

\* A test that forgets DELETE.
HasRequestBodyOnDelete(methodName) ==
    methodName # "GET" /\ methodName # "HEAD"

\* The verbs for which buildOperation builds a request body.
HasRequestBody(methodName) ==
    methodName # "GET" /\ methodName # "HEAD" /\ methodName # "DELETE"

\* The request body block of buildOperation: the content entries, empty when
\* RequestBody stays nil.
BuildRequestBody(req, methodName, inputDesc) ==
    IF HasRequestBody(methodName)
    THEN LET body == getSchemaByOption(req, inputDesc, ApiBody)
             form == getSchemaByOption(body.req, inputDesc, ApiForm)
             raw  == getSchemaByOption(form.req, inputDesc, ApiRawBody)
             m1 == IF Len(body.props) > 0
                   THEN <<NamedMediaType("application/json", body)>> ELSE <<>>
             m2 == IF Len(form.props) > 0
                   THEN <<NamedMediaType("multipart/form-data", form)>> ELSE <<>>
             m3 == IF Len(raw.props) > 0
                   THEN <<NamedMediaType("application/octet-stream", raw)>> ELSE <<>>
         IN  [content |-> m1 \o m2 \o m3, req |-> raw.req]
    ELSE [content |-> <<>>, req |-> req]

\* \w of the regular expression `:(\w+)`.
IsWord(c) == Ascii(c) \in (48..57) \cup (65..90) \cup (97..122) \cup {95}

\* The longest prefix of word characters.
RECURSIVE WordRun(_)
WordRun(s) ==
    IF s # <<>> /\ IsWord(Head(s)) THEN <<Head(s)>> \o WordRun(Tail(s)) ELSE <<>>

\* A replacement of the first match only.
ReplaceString(path) ==
    IF \E i \in 1..(Len(path) - 1) : path[i] = ":" /\ IsWord(path[i + 1])
    THEN LET i == CHOOSE i \in 1..(Len(path) - 1) :
                      /\ path[i] = ":" /\ IsWord(path[i + 1])
                      /\ \A j \in 1..(i - 1) : ~(path[j] = ":" /\ IsWord(path[j + 1]))
             w == WordRun(SubSeq(path, i + 1, Len(path)))
         IN  SubSeq(path, 1, i - 1) \o <<"{">> \o w \o <<"}">>
             \o SubSeq(path, i + 1 + Len(w), Len(path))
    ELSE path

\* re.ReplaceAllString(path, `{$1}`) for re = `:(\w+)`.
RECURSIVE ReplaceAllString(_)
ReplaceAllString(path) ==
    IF path = <<>> THEN <<>>
    ELSE LET w == WordRun(Tail(path)) IN
         IF Head(path) = ":" /\ w # <<>>
         THEN <<"{">> \o w \o <<"}">> \o
              ReplaceAllString(SubSeq(path, Len(w) + 2, Len(path)))
         ELSE <<Head(path)>> \o ReplaceAllString(Tail(path))

\* A host is [scheme, rest], the string scheme \o rest; the empty string is
\* NoHost.
NoHost == [scheme |-> "", rest |-> ""]

\* An operation's servers without the test of the prefix.
OperationServersAsGiven(host) == IF host # NoHost THEN <<host>> ELSE <<>>

\* The servers of the operation: the host, "http://" put in front of a host
\* without http:// or https:// prefix.
OperationServers(host) ==
    IF host # NoHost
    THEN <<IF host.scheme # "http://" /\ host.scheme # "https://"
           THEN [scheme |-> "http://", rest |-> host.scheme \o host.rest]
           ELSE host>>
    ELSE <<>>

\* buildOperation after the parameter loop: the request body.
RequestOf(ps, methodName, inputDesc) ==
    [parameters |-> ps.parameters,
     body |-> BuildRequestBody(ps.req, methodName, inputDesc)]

\* buildOperation after the request body: the response of the output struct.
ResponseOf(rq, g, outputDesc) ==
    [parameters |-> rq.parameters,
     requestBody |-> rq.body.content,
     resp |-> getResponseForStruct([g EXCEPT !.req = rq.body.req], outputDesc)]

\* buildOperation from `var headerOrEmpty` on: the responses, the rewritten
\* path, the operation and its servers.
OperationOf(r, operationID, tagName, path, host) ==
    [op |-> [tags |-> <<tagName>>, operationId |-> operationID,
             parameters |-> r.parameters,
             responses |-> IF Len(r.resp.headers) # 0 \/ Len(r.resp.content) # 0
                           THEN <<[name |-> r.resp.name, headers |-> r.resp.headers,
                                   content |-> r.resp.content]>>
                           ELSE <<>>,
             requestBody |-> r.requestBody, servers |-> OperationServers(host)],
     path |-> ReplaceAllString(path),
     g |-> r.resp.g]

\* buildOperation: the operation, the rewritten path and the generator state
\* g = [req, gen, schemas] after the call.
buildOperation(g, methodName, operationID, tagName, path, host, inputDesc, outputDesc) ==
    OperationOf(
        ResponseOf(
            RequestOf(BuildParameters(g.req, inputDesc.fields, <<>>),
                      methodName, inputDesc),
            g, outputDesc),
        operationID, tagName, path, host)

\* The verb slots of a PathItem; a slot is <<>> (nil) or <<op>>.
Slots == {"GET", "POST", "PUT", "DELETE", "PATCH", "OPTIONS", "HEAD"}

EmptyPathItem(path) ==
    [name |-> path, ops |-> [m \in Slots |-> <<>>], servers |-> <<>>]

\* An addOperationToDocument that never looks for the path item.
addOperationToDocumentAppending(paths, op, path, methodName) ==
    Append(paths, IF methodName \in Slots
                  THEN [EmptyPathItem(path) EXCEPT !.ops[methodName] = <<op>>]
                  ELSE EmptyPathItem(path))

\* addOperationToDocument on d.Paths.Path.
addOperationToDocument(paths, op, path, methodName) ==
    LET found == \E i \in 1..Len(paths) : paths[i].name = path
        ps == IF found THEN paths ELSE Append(paths, EmptyPathItem(path))
        k  == CHOOSE i \in 1..Len(ps) :
                  /\ ps[i].name = path
                  /\ \A j \in 1..(i - 1) : ps[j].name # path
    IN  IF methodName \in Slots
        THEN [ps EXCEPT ![k].ops[methodName] = <<op>>]
        ELSE ps

-----------------------------------------------------------------------------
(* Post-processing of BuildDocument *)

\* The verb slots the server loop of BuildDocument reads and clears, in the
\* order of its if statements.
HoistSlots == <<"GET", "POST", "PUT", "DELETE", "PATCH">>

\* The servers the loop collects from one path item, appended to acc.
RECURSIVE CollectServers(_, _, _)
CollectServers(item, k, acc) ==
    IF k > Len(HoistSlots) THEN acc
    ELSE LET slot == item.ops[HoistSlots[k]] IN
         IF slot # <<>> /\ Len(slot[1].servers) = 1
         THEN CollectServers(item, k + 1, AppendUnique(acc, slot[1].servers[1]))
         ELSE CollectServers(item, k + 1, acc)

\* The body of the loop for one path item: hoist a single server to the path.
HoistPath(item) ==
    LET srv == CollectServers(item, 1, <<>>) IN
    IF Len(srv) = 1
    THEN [item EXCEPT
            !.servers = <<srv[1]>>,
            !.ops = [m \in Slots |->
                       IF m \in {HoistSlots[k] : k \in 1..Len(HoistSlots)} /\ @[m] # <<>>
                       THEN <<[@[m][1] EXCEPT !.servers = <<>>]>>
                       ELSE @[m]]]
    ELSE item

\* allServers after the loop over the path items from index i on.
RECURSIVE AllServers(_, _, _)
AllServers(ps, i, acc) ==
    IF i > Len(ps) THEN acc
    ELSE AllServers(ps, i + 1, CollectServers(ps[i], 1, acc))

\* The less functions of the three sorts of BuildDocument: by name for tags
\* and schemas, by path string for path items.
Less(by, a, b) ==
    IF by = "path" THEN PathLess(a.name, b.name) ELSE NameLess(a.name, b.name)

\* sort.Slice(pairs, less) on a sequence (insertion sort; the keys of the
\* sorted lists are distinct).
RECURSIVE Insert(_, _, _)
Insert(sorted, x, by) ==
    IF sorted = <<>> THEN <<x>>
    ELSE IF Less(by, x, Head(sorted)) THEN <<x>> \o sorted
    ELSE <<Head(sorted)>> \o Insert(Tail(sorted), x, by)

\* No sort: the list stays in insertion order.
Unsorted(pairs, by) == pairs

RECURSIVE SortSlice(_, _)
SortSlice(pairs, by) ==
    IF pairs = <<>> THEN <<>>
    ELSE Insert(SortSlice(SubSeq(pairs, 1, Len(pairs) - 1), by), pairs[Len(pairs)], by)

-----------------------------------------------------------------------------
(* State *)

VARIABLES
    ast,               \* g.ast / g.fileDesc: [structs, services]
    pc,                \* position in BuildDocument
    si, fi,            \* addPathsToDocument: index of s in services, of f in s.Functions
    pending,           \* keys of rs the loop `range rs` has not visited yet
    annotationsCount,  \* addPathsToDocument local
    requiredSchemas, generatedSchemas,
    info, servers, paths, schemas, tags,   \* the document d
    count,             \* BuildDocument local of the resolver loop
    stack,             \* call stack of addSchemasForStructsToDocument
    run, prev          \* number of the run of the plugin, document of the run before

vars == <<ast, pc, si, fi, pending, annotationsCount, requiredSchemas,
          generatedSchemas, info, servers, paths, schemas, tags, count, stack,
          run, prev>>

\* The document d.
Document == [info |-> info, servers |-> servers, paths |-> paths,
             schemas |-> schemas, tags |-> tags]

NoDocument == [info |-> [title |-> "", description |-> ""], servers |-> <<>>,
               paths |-> <<>>, schemas |-> <<>>, tags |-> <<>>]

\* g.fileDesc.GetStructDescriptor(name)
GetStructDescriptor(name) ==
    ast.structs[CHOOSE i \in 1..Len(ast.structs) : ast.structs[i].name = name]

\* g.fileDesc.GetStructDescriptor(name) is not nil: name is a struct of the
\* file (not void, not a base type).
HasStructDescriptor(name) == \E i \in 1..Len(ast.structs) : ast.structs[i].name = name

\* utils.GetAnnotations(f.Annotations, HttpMethodAnnotations): verb -> path.
GetAnnotations(input, targets) ==
    LET keys == DOMAIN input \cap DOMAIN targets IN
    [t \in {targets[k] : k \in keys} |->
        input[CHOOSE k \in keys : targets[k] = t]]

-----------------------------------------------------------------------------
(* The parsed IDL files the model runs on *)

FieldKeys == {ApiQuery, ApiPath, ApiCookie, ApiHeader, ApiBody, ApiForm, ApiRawBody}

NoAnnotations == [k \in FieldKeys |-> Absent]

\* No openapi.parameter annotation on the field.
NoOverride == [fields |-> {}, required |-> FALSE]
\* openapi.parameter = 'required: true'
RequiredOverride == [fields |-> {"required"}, required |-> TRUE]

Field(name, type, ann, parameter) ==
    [name |-> name, type |-> type, ann |-> ann, parameter |-> parameter]

Function(name, ann, baseurl, arg, ret) ==
    [name |-> name, ann |-> ann, baseurl |-> baseurl, arg |-> arg, ret |-> ret]

Service(name, comment, base_domain, functions) ==
    [name |-> name, comment |-> comment, base_domain |-> base_domain,
     functions |-> functions]

Host1 == [scheme |-> "", rest |-> "h1"]
Host2 == [scheme |-> "https://", rest |-> "h2"]
Host3 == [scheme |-> "ws://", rest |-> "h3"]

PathA == <<"/", "a">>
PathB == <<"/", "b">>
PathI == <<"/", "a", "/", ":", "i">>

(* Family 1: struct graphs.  Three structs declared in the order C, A, B;  *)
(* a set of at most MaxEdges struct-typed fields, each a direct struct     *)
(* field or a list of structs; every field carries api.body, or every      *)
(* field carries api.query and api.header; one POST method taking A and    *)
(* returning any of the three.                                             *)
GraphStructs == <<"C", "A", "B">>

EdgeOrder ==
    <<[to |-> "A", kind |-> "struct"], [to |-> "A", kind |-> "list"],
      [to |-> "B", kind |-> "struct"], [to |-> "B", kind |-> "list"],
      [to |-> "C", kind |-> "struct"], [to |-> "C", kind |-> "list"]>>

EdgeUniverse ==
    {[from |-> GraphStructs[i], to |-> EdgeOrder[j].to, kind |-> EdgeOrder[j].kind] :
        i \in 1..Len(GraphStructs), j \in 1..Len(EdgeOrder)}

RECURSIVE EdgeSets(_)
EdgeSets(k) ==
    IF k = 0 THEN {{}}
    ELSE LET P == EdgeSets(k - 1) IN P \cup {E \cup {e} : E \in P, e \in EdgeUniverse}

BodyAnnotation == [NoAnnotations EXCEPT ![ApiBody] = ""]
ParameterAnnotation == [NoAnnotations EXCEPT ![ApiQuery] = "q", ![ApiHeader] = "hd"]

EdgeField(e, ann) ==
    Field((IF e.kind = "struct" THEN "to" ELSE "list") \o e.to,
          IF e.kind = "struct" THEN TStruct(e.to) ELSE TList(TStruct(e.to)),
          ann, NoOverride)

RECURSIVE EdgeFields(_, _, _, _)
EdgeFields(E, from, j, ann) ==
    IF j > Len(EdgeOrder) THEN <<>>
    ELSE (IF [from |-> from, to |-> EdgeOrder[j].to, kind |-> EdgeOrder[j].kind] \in E
          THEN <<EdgeField(EdgeOrder[j], ann)>> ELSE <<>>)
         \o EdgeFields(E, from, j + 1, ann)

GraphStruct(E, name, ann) ==
    [name |-> name,
     fields |-> <<Field("v", TPrim("string"), ann, NoOverride)>>
                \o EdgeFields(E, name, 1, ann)]

GraphInputs ==
    {[structs |-> [i \in 1..Len(GraphStructs) |-> GraphStruct(E, GraphStructs[i], ann)],
      services |-> <<Service("S", "svc", NoHost,
                       <<Function("a", (ApiPost :> PathA), NoHost, "A", ret)>>)>>] :
        E \in EdgeSets(MaxEdges), ret \in {"A", "B", "C"},
        ann \in {BodyAnnotation, ParameterAnnotation}}

(* Family 2: annotations of one request field.  Every combination of the   *)
(* location annotations (absent, empty, named), of the body annotations,   *)
(* of an openapi.parameter override and of the verb of the method.         *)
LocationValues(name) == {Absent, "", name}
BucketValues == {Absent, ""}

FieldAnnotations ==
    {(ApiQuery :> q) @@ (ApiPath :> p) @@ (ApiCookie :> c) @@ (ApiHeader :> h) @@
     (ApiBody :> b) @@ (ApiForm :> f) @@ (ApiRawBody :> r) :
        q \in LocationValues("qn"), p \in LocationValues("pn"),
        c \in LocationValues("cn"), h \in LocationValues("hn"),
        b \in BucketValues, f \in BucketValues, r \in BucketValues}

ResponseStruct ==
    [name |-> "R",
     fields |-> <<Field("msg", TPrim("string"), BodyAnnotation, NoOverride),
                  Field("tok", TPrim("string"),
                        [NoAnnotations EXCEPT ![ApiHeader] = "token"], NoOverride)>>]

FieldInputs ==
    {[structs |-> <<[name |-> "A",
                     fields |-> <<Field("x", TPrim("i64"), ann, ovr),
                                  Field("y", TPrim("string"),
                                        [NoAnnotations EXCEPT ![ApiQuery] = "y"],
                                        NoOverride)>>],
                    ResponseStruct>>,
      services |-> <<Service("S", "", NoHost,
                       <<Function("a", (key :> PathI), NoHost, "A", "R")>>)>>] :
        ann \in FieldAnnotations, ovr \in {NoOverride, RequiredOverride},
        key \in DOMAIN HttpMethodAnnotations}

(* Family 3: services, methods, verbs, paths and hosts.  Two services      *)
(* declared in the order T, S and two functions a and b, both in T or one  *)
(* in each; a function has no verb annotation (only an annotation that is  *)
(* not in HttpMethodAnnotations), one verb annotation (any                 *)
(* key, either path) or api.post and api.put together; api.baseurl is      *)
(* absent or one of two hosts; S has api.base_domain.                      *)
VerbAnnotations ==
    {("api.category" :> PathA)} \cup
    {(key :> path) : key \in DOMAIN HttpMethodAnnotations, path \in {PathA, PathB}} \cup
    {(ApiPost :> p1) @@ (ApiPut :> p2) : p1 \in {PathA, PathB}, p2 \in {PathA, PathB}}

RequestStruct ==
    [name |-> "A",
     fields |-> <<Field("q", TPrim("string"),
                        [NoAnnotations EXCEPT ![ApiQuery] = "q"], NoOverride)>>]

ServiceInputs ==
    {[structs |-> <<ResponseStruct, RequestStruct>>,
      services |->
         IF split
         THEN <<Service("T", "", NoHost, <<Function("a", v1, h1, "A", "R")>>),
                Service("S", "svc", Host1, <<Function("b", v2, h2, "A", "R")>>)>>
         ELSE <<Service("T", "", NoHost, <<Function("a", v1, h1, "A", "R"),
                                           Function("b", v2, h2, "A", "R")>>),
                Service("S", "svc", Host1, <<>>)>>] :
        v1 \in VerbAnnotations, v2 \in VerbAnnotations,
        h1 \in {NoHost, Host1, Host2}, h2 \in {NoHost, Host1, Host2},
        split \in BOOLEAN}

(* Family 4: openapi.schema overrides.  A request struct A with two       *)
(* api.body fields (one a struct B, one renamed), an api.form field and a   *)
(* field without annotation, a response struct R with one api.body field    *)
(* and a field without annotation; A carries one override, B and R another; *)
(* an override sets any of type, title and required.                        *)
RequiredLists == {<<"nn">>, <<"f", "nn">>, <<"zz">>}

SchemaOverrides ==
    {NoSchemaOverride} \cup
    {[fields |-> F,
      type |-> IF "type" \in F THEN "string" ELSE "",
      title |-> IF "title" \in F THEN "Ov" ELSE "",
      required |-> IF "required" \in F THEN r ELSE <<>>] :
        F \in (SUBSET {"type", "title", "required"}) \ {{}}, r \in RequiredLists}

\* A struct with the openapi.schema annotation ext, or without one.
StructLike(name, fields, ext) ==
    IF ext = NoSchemaOverride THEN [name |-> name, fields |-> fields]
    ELSE [name |-> name, fields |-> fields, schema |-> ext]

SchemaInputs ==
    {[structs |->
         <<StructLike("A",
               <<Field("b", TStruct("B"), BodyAnnotation, NoOverride),
                 Field("n", TPrim("string"),
                       [NoAnnotations EXCEPT ![ApiBody] = "nn"], NoOverride),
                 Field("f", TPrim("string"),
                       [NoAnnotations EXCEPT ![ApiForm] = ""], NoOverride),
                 Field("u", TPrim("i32"), NoAnnotations, RequiredOverride)>>, oA),
           StructLike("B",
               <<Field("v", TPrim("string"), BodyAnnotation, NoOverride),
                 Field("w", TPrim("i32"), NoAnnotations, NoOverride)>>, oB),
           StructLike("R",
               <<Field("m", TPrim("string"),
                       [NoAnnotations EXCEPT ![ApiBody] = "nn"], NoOverride),
                 Field("u", TPrim("i32"), NoAnnotations, NoOverride)>>, oB)>>,
      services |-> <<Service("S", "svc", NoHost,
                       <<Function("a", (ApiPost :> PathA), NoHost, "A", "R")>>)>>] :
        oA \in SchemaOverrides, oB \in SchemaOverrides}

(* Family 5: types and return types.  A request struct with one field of  *)
(* a type of the primitive table, of an enum (a name that is neither in the *)
(* table nor a struct), of a list of enums, of a map, of a struct that      *)
(* cannot be looked up or of a list or map of such a struct, in one bucket  *)
(* or in query and body; any verb key; the method returns the struct R, the *)
(* request struct or void.                                                  *)
FieldTypes ==
    {TPrim("string"), TPrim("Color"), TList(TPrim("Color")), TMap(TPrim("string")),
     TUnresolved("X"), TList(TUnresolved("X")), TMap(TUnresolved("X"))}

BucketAnnotations ==
    {[NoAnnotations EXCEPT ![ApiBody] = ""],
     [NoAnnotations EXCEPT ![ApiForm] = "fm"],
     [NoAnnotations EXCEPT ![ApiRawBody] = ""],
     [NoAnnotations EXCEPT ![ApiQuery] = "q", ![ApiBody] = "bd"]}

TypeInputs ==
    {[structs |-> <<[name |-> "A",
                     fields |-> <<Field("x", t, ann, NoOverride)>>],
                    ResponseStruct>>,
      services |-> <<Service("S", "", NoHost,
                       <<Function("a", (key :> PathA), NoHost, "A", ret)>>)>>] :
        t \in FieldTypes, ann \in BucketAnnotations,
        key \in DOMAIN HttpMethodAnnotations, ret \in {"R", "A", "void"}}

(* Family 6: path templates.  Two methods of one service, one under POST  *)
(* and one under GET, each with any of the templates: two placeholders, a   *)
(* colon without name, two colons, a name of several word characters, a     *)
(* template with braces, one placeholder, a placeholder inside a segment.   *)
PathTemplates ==
    {<<"/", ":", "a", "/", ":", "b">>,
     <<"/", "a", ":">>,
     <<"/", ":", ":", "i">>,
     <<"/", ":", "a", "b", "_", "i", "/">>,
     <<"/", "{", "a", "}">>,
     <<"/", ":", "a">>,
     <<"/", "a", ":", "b">>}

PathInputs ==
    {[structs |-> <<ResponseStruct, RequestStruct>>,
      services |-> <<Service("S", "", NoHost,
                       <<Function("a", (ApiPost :> t1), NoHost, "A", "R"),
                         Function("b", (ApiGet :> t2), NoHost, "A", "R")>>)>>] :
        t1 \in PathTemplates, t2 \in PathTemplates}

(* Family 7: servers of three operations on two paths.  Method a under    *)
(* POST on /a, method b under GET or HEAD on /a, method c under PUT on /b;  *)
(* each with api.baseurl absent or one of two hosts, for method a also a    *)
(* host with another scheme; api.base_domain absent or that host.           *)
ServerInputs ==
    {[structs |-> <<ResponseStruct, RequestStruct>>,
      services |-> <<Service("T", "", bd,
                       <<Function("a", (ApiPost :> PathA), ha, "A", "R"),
                         Function("b", (key :> PathA), hb, "A", "R"),
                         Function("c", (ApiPut :> PathB), hc, "A", "R")>>)>>] :
        key \in {ApiGet, ApiHEAD}, bd \in {NoHost, Host3},
        ha \in {NoHost, Host1, Host2, Host3}, hb \in {NoHost, Host1, Host2},
        hc \in {NoHost, Host1, Host2}}

(* Family 8: the type of one api.body field of the request struct: a name *)
(* of the primitive table or the struct B, under at most MaxDepth lists and *)
(* maps in any order; one POST method.                                      *)
MaxDepth == 2

TableNames == {"string", "binary", "bool", "byte", "double", "i8", "i16", "i32", "i64"}

NestedTypes ==
    {[base |-> b, struct |-> b = "B", wrap |-> w] :
        b \in TableNames \cup {"B"},
        w \in UNION {[1..n -> {"list", "map"}] : n \in 0..MaxDepth}}

MappingInputs ==
    {[structs |-> <<[name |-> "A",
                     fields |-> <<Field("x", t, BodyAnnotation, NoOverride)>>],
                    [name |-> "B",
                     fields |-> <<Field("v", TPrim("string"), BodyAnnotation,
                                        NoOverride)>>],
                    ResponseStruct>>,
      services |-> <<Service("S", "", NoHost,
                       <<Function("a", (ApiPost :> PathA), NoHost, "A", "R")>>)>>] :
        t \in NestedTypes}

(* Family 9: openapi.document carriers.  Two services S and T and the     *)
(* structs A and R, each without the annotation or with one of three        *)
(* payloads: a title, a description, nothing.                               *)
DocumentPayloads ==
    {[fields |-> {"title"}, title |-> "t1", description |-> ""],
     [fields |-> {"description"}, title |-> "", description |-> "d2"],
     [fields |-> {}, title |-> "", description |-> ""]}

\* The choice "the element has no openapi.document annotation".
NotCarried == [fields |-> {Absent}, title |-> "", description |-> ""]

ServiceWith(name, functions, document) ==
    IF document = NotCarried THEN Service(name, "", NoHost, functions)
    ELSE [name |-> name, comment |-> "", base_domain |-> NoHost,
          functions |-> functions, document |-> document]

StructWith(desc, document) ==
    IF document = NotCarried THEN desc
    ELSE [name |-> desc.name, fields |-> desc.fields, document |-> document]

DocumentInputs ==
    {[structs |-> <<StructWith(RequestStruct, dA), StructWith(ResponseStruct, dR)>>,
      services |-> <<ServiceWith("S", <<Function("a", (ApiGet :> PathA), NoHost,
                                                  "A", "R")>>, dS),
                     ServiceWith("T", <<Function("b", (ApiGet :> PathB), NoHost,
                                                  "A", "R")>>, dT)>>] :
        dS \in DocumentPayloads \cup {NotCarried},
        dT \in DocumentPayloads \cup {NotCarried},
        dA \in DocumentPayloads \cup {NotCarried},
        dR \in DocumentPayloads \cup {NotCarried}}

(* Family 10: a struct that is returned and referred to.  A has one      *)
(* api.body field of type B; B has two fields in the buckets api.body or    *)
(* api.raw_body and one field without annotation; the method takes A and    *)
(* returns B, A or R.                                                       *)
ComponentInputs ==
    {[structs |-> <<[name |-> "A",
                     fields |-> <<Field("b", TStruct("B"), BodyAnnotation,
                                        NoOverride)>>],
                    [name |-> "B",
                     fields |-> <<Field("v", TPrim("string"),
                                        (k1 :> "") @@ NoAnnotations, NoOverride),
                                  Field("r", TPrim("binary"),
                                        (k2 :> "") @@ NoAnnotations, NoOverride),
                                  Field("w", TPrim("i32"), NoAnnotations,
                                        NoOverride)>>],
                    ResponseStruct>>,
      services |-> <<Service("S", "", NoHost,
                       <<Function("a", (ApiPost :> PathA), NoHost, "A", ret)>>)>>] :
        k1 \in {ApiBody, ApiRawBody}, k2 \in {ApiBody, ApiRawBody},
        ret \in {"B", "A", "R"}}

-----------------------------------------------------------------------------
(* BuildDocument *)

\* NewOpenAPIv3Generator and BuildDocument up to the call of
\* addPathsToDocument, on the parsed file a.
Start(a) ==
    /\ ast = a
    /\ pc = "option"
    /\ si = 1
    /\ fi = 0
    /\ pending = {}
    /\ annotationsCount = 0
    /\ requiredSchemas = <<>>
    /\ generatedSchemas = <<>>
    /\ info = [title |-> "API", description |-> "API description"]
    /\ servers = <<>>
    /\ paths = <<>>
    /\ schemas = <<>>
    /\ tags = <<>>
    /\ count = 0
    /\ stack = <<>>

Init ==
    /\ \/ \E a \in GraphInputs : Start(a)
       \/ \E a \in FieldInputs : Start(a)
       \/ \E a \in ServiceInputs : Start(a)
       \/ \E a \in SchemaInputs : Start(a)
       \/ \E a \in TypeInputs : Start(a)
       \/ \E a \in PathInputs : Start(a)
       \/ \E a \in ServerInputs : Start(a)
       \/ \E a \in MappingInputs : Start(a)
       \/ \E a \in DocumentInputs : Start(a)
       \/ \E a \in ComponentInputs : Start(a)
    /\ run = 1
    /\ prev = NoDocument

\* s.Annotations.Get(OpenapiDocument) has a value.
HasDocumentAnnotation(s) == "document" \in DOMAIN s

\* The first element of seq that carries openapi.document, 0 if none does.
FirstCarrier(seq) ==
    IF \E i \in 1..Len(seq) : HasDocumentAnnotation(seq[i])
    THEN CHOOSE i \in 1..Len(seq) :
             /\ HasDocumentAnnotation(seq[i])
             /\ \A j \in 1..(i - 1) : ~HasDocumentAnnotation(seq[j])
    ELSE 0

\* A choice of carrier that prefers the structs to the services.
StructBeforeService ==
    IF FirstCarrier(ast.structs) # 0
    THEN [kind |-> "struct", name |-> ast.structs[FirstCarrier(ast.structs)].name]
    ELSE IF FirstCarrier(ast.services) # 0
    THEN [kind |-> "service", name |-> ast.services[FirstCarrier(ast.services)].name]
    ELSE [kind |-> "", name |-> ""]

\* getDocumentAnnotationInWhichServiceOrStruct: the first service with the
\* annotation, else the first struct with it, else nothing.
getDocumentAnnotationInWhichServiceOrStruct ==
    IF FirstCarrier(ast.services) # 0
    THEN [kind |-> "service", name |-> ast.services[FirstCarrier(ast.services)].name]
    ELSE IF FirstCarrier(ast.structs) # 0
    THEN [kind |-> "struct", name |-> ast.structs[FirstCarrier(ast.structs)].name]
    ELSE [kind |-> "", name |-> ""]

\* extDocument == nil: no payload was parsed.
NoDocumentOverride == [fields |-> {}, title |-> "", description |-> ""]

\* g.fileDesc.GetServiceDescriptor(name)
GetServiceDescriptor(name) ==
    ast.services[CHOOSE i \in 1..Len(ast.services) : ast.services[i].name = name]

\* getDocumentOption: the payload of the carrier, parsed by
\* utils.ParseServiceOption or utils.ParseStructOption.
getDocumentOption(carrier) ==
    IF carrier.kind = "service" THEN GetServiceDescriptor(carrier.name).document
    ELSE IF carrier.kind = "struct" THEN GetStructDescriptor(carrier.name).document
    ELSE NoDocumentOverride

\* utils.MergeStructs(d, extDocument): the fields of Info the payload sets
\* replace the initial ones.
MergeDocument(d, ext) ==
    [title |-> IF "title" \in ext.fields THEN ext.title ELSE d.title,
     description |-> IF "description" \in ext.fields THEN ext.description
                     ELSE d.description]

\* BuildDocument: the openapi.document payload is merged onto the initial
\* document, then addPathsToDocument begins.
DocumentOption ==
    /\ pc = "option"
    /\ info' = MergeDocument(info,
                    getDocumentOption(getDocumentAnnotationInWhichServiceOrStruct))
    /\ pc' = "paths"
    /\ UNCHANGED <<ast, si, fi, pending, annotationsCount, requiredSchemas,
                   generatedSchemas, servers, paths, schemas, tags, count, stack,
                   run, prev>>

\* The host of an operation: api.baseurl of the function, else
\* api.base_domain of the service.
HostOf(s, f) == IF f.baseurl # NoHost THEN f.baseurl ELSE s.base_domain

\* addPathsToDocument: the operation b = buildOperation(...) is added to the
\* document by addOperationToDocument.
StoreOperation(b, methodName) ==
    /\ requiredSchemas' = b.g.req
    /\ generatedSchemas' = b.g.gen
    /\ schemas' = b.g.schemas
    /\ paths' = addOperationToDocument(paths, b.op, b.path, methodName)

\* The function f of service s is bound to the verb methodName.
BindOperation(s, f, methodName) ==
    StoreOperation(
        buildOperation(
            [req |-> requiredSchemas, gen |-> generatedSchemas, schemas |-> schemas],
            methodName, s.name \o "_" \o f.name, s.name,
            GetAnnotations(f.ann, HttpMethodAnnotations)[methodName],
            HostOf(s, f), GetStructDescriptor(f.arg), GetStructDescriptor(f.ret)),
        methodName)

\* addPathsToDocument: one iteration of `for methodName, path := range rs`;
\* the map is visited in any order.
AddOperation ==
    /\ pc = "paths"
    /\ pending # {}
    /\ HasStructDescriptor(ast.services[si].functions[fi].ret)
    /\ \E methodName \in pending :
        /\ pending' = pending \ {methodName}
        /\ annotationsCount' = annotationsCount + 1
        /\ BindOperation(ast.services[si], ast.services[si].functions[fi], methodName)
    /\ UNCHANGED <<ast, pc, si, fi, info, servers, tags, count, stack, run, prev>>

\* addPathsToDocument: one iteration of `for methodName, path := range rs`
\* for a function whose return type is not a struct: outputDesc is nil and
\* getResponseForStruct reads desc.Fields, a nil pointer dereference; the
\* panic ends BuildDocument.
PanicInResponse ==
    /\ pc = "paths"
    /\ pending # {}
    /\ ~HasStructDescriptor(ast.services[si].functions[fi].ret)
    /\ pc' = "panic"
    /\ UNCHANGED <<ast, si, fi, pending, annotationsCount, requiredSchemas,
                   generatedSchemas, info, servers, paths, schemas, tags, count,
                   stack, run, prev>>

\* addPathsToDocument: the next f of s.Functions; rs is computed, a function
\* without verb annotation is skipped by the next step.
NextFunction ==
    /\ pc = "paths"
    /\ si <= Len(ast.services)
    /\ pending = {}
    /\ fi < Len(ast.services[si].functions)
    /\ fi' = fi + 1
    /\ pending' = DOMAIN GetAnnotations(ast.services[si].functions[fi + 1].ann,
                                        HttpMethodAnnotations)
    /\ UNCHANGED <<ast, pc, si, annotationsCount, requiredSchemas, generatedSchemas,
                   info, servers, paths, schemas, tags, count, stack, run, prev>>

\* A tag for every service, with or without annotated method, under the
\* name of its first method.
AppendTagOfMethod(t, s, n) ==
    Append(t, [name |-> s.functions[1].name, description |-> s.comment])

\* addPathsToDocument: `if annotationsCount > 0`, the tag of the service s
\* is appended to the tags t.
AppendTag(t, s, n) ==
    IF n > 0 THEN Append(t, [name |-> s.name, description |-> s.comment]) ELSE t

\* addPathsToDocument: after the last function of s, the tag of the service.
EndService ==
    /\ pc = "paths"
    /\ si <= Len(ast.services)
    /\ pending = {}
    /\ fi = Len(ast.services[si].functions)
    /\ tags' = AppendTag(tags, ast.services[si], annotationsCount)
    /\ si' = si + 1
    /\ fi' = 0
    /\ annotationsCount' = 0
    /\ UNCHANGED <<ast, pc, pending, requiredSchemas, generatedSchemas, info,
                   servers, paths, schemas, count, stack, run, prev>>

\* addPathsToDocument returns.
EndPaths ==
    /\ pc = "paths"
    /\ si > Len(ast.services)
    /\ pc' = "resolve"
    /\ UNCHANGED <<ast, si, fi, pending, annotationsCount, requiredSchemas,
                   generatedSchemas, info, servers, paths, schemas, tags, count,
                   stack, run, prev>>

-----------------------------------------------------------------------------
(* Schema dependency resolver *)

\* g.ast.GetStructLikes(), by name.
StructLikes == [i \in 1..Len(ast.structs) |-> ast.structs[i].name]

\* addSchemasForStructsToDocument, the list sls of a struct: the structs of
\* its fields whose type category is struct (getStructLikeByName of each).
RECURSIVE NestedStructs(_)
NestedStructs(fields) ==
    IF fields = <<>> THEN <<>>
    ELSE (IF IsStruct(Head(fields).type) THEN <<Head(fields).type.base>> ELSE <<>>)
         \o NestedStructs(Tail(fields))

\* The property name of a field of a component schema: the field name,
\* replaced by the last non-empty value of api.header, api.body, api.form,
\* api.raw_body.
RECURSIVE ExtName(_, _, _)
ExtName(field, options, extName) ==
    IF options = <<>> THEN extName
    ELSE LET option == Head(options) IN
         ExtName(field, Tail(options),
                 IF field.ann[option] # Absent /\ field.ann[option] # ""
                 THEN field.ann[option] ELSE extName)

\* The loop over structDesc.Fields that builds definitionProperties.
RECURSIVE StructProperties(_, _, _)
StructProperties(req, fields, props) ==
    IF fields = <<>> THEN [props |-> props, req |-> req]
    ELSE LET field == Head(fields)
             fs == schemaOrReferenceForField(req, field.type)
         IN  IF fs.s = NilSchema
             THEN StructProperties(fs.req, Tail(fields), props)
             ELSE StructProperties(fs.req, Tail(fields),
                      Append(props,
                          [name |-> ExtName(field,
                                       <<ApiHeader, ApiBody, ApiForm, ApiRawBody>>,
                                       field.name),
                           value |-> fs.s]))

\* The test of addSchemasForStructsToDocument that lets a struct be built.
NeedsSchema(req, gen, schemaName) ==
    ~(~Contains(req, schemaName) \/ Contains(gen, schemaName))

\* The body of the loop of addSchemasForStructsToDocument after the
\* recursive call, for the struct named schemaName.
BuildSchema(g, schemaName) ==
    IF ~NeedsSchema(g.req, g.gen, schemaName) THEN g
    ELSE LET sp == StructProperties(g.req, GetStructDescriptor(schemaName).fields, <<>>)
         IN  addSchemaToDocument(
                 [g EXCEPT !.req = sp.req],
                 NamedSchema(schemaName,
                     SchemaByOption(sp,
                         MergeSchema([type |-> "object", title |-> "", required |-> <<>>],
                             ParseStructOption(GetStructDescriptor(schemaName))))))

\* Calls the goroutine stack holds: a chain of more calls than there are
\* structs visits a struct inside its own visit and never returns.
StackLimit == Len(ast.structs) + 1

Top == stack[Len(stack)]

\* BuildDocument: `for len(g.requiredSchemas) > 0`, the loop is entered.
StartPass ==
    /\ pc = "resolve"
    /\ Len(requiredSchemas) > 0
    /\ count' = Len(requiredSchemas)
    /\ stack' = <<[structs |-> StructLikes, i |-> 1, nested |-> FALSE]>>
    /\ pc' = "pass"
    /\ UNCHANGED <<ast, si, fi, pending, annotationsCount, requiredSchemas,
                   generatedSchemas, info, servers, paths, schemas, tags, run, prev>>

\* addSchemasForStructsToDocument: the recursive call for the nested structs
\* of structs[i]; the stack overflows when it is full.
Descend ==
    /\ pc = "pass"
    /\ Top.i <= Len(Top.structs)
    /\ ~Top.nested
    /\ IF Len(stack) < StackLimit
       THEN /\ stack' = Append([stack EXCEPT ![Len(stack)].nested = TRUE],
                               [structs |-> NestedStructs(
                                    GetStructDescriptor(Top.structs[Top.i]).fields),
                                i |-> 1, nested |-> FALSE])
            /\ pc' = pc
       ELSE /\ pc' = "overflow"
            /\ stack' = stack
    /\ UNCHANGED <<ast, si, fi, pending, annotationsCount, requiredSchemas,
                   generatedSchemas, info, servers, paths, schemas, tags, count,
                   run, prev>>

\* addSchemasForStructsToDocument: after the recursive call, structs[i] is
\* built if it is required and not generated.
Visit ==
    /\ pc = "pass"
    /\ Top.i <= Len(Top.structs)
    /\ Top.nested
    /\ LET g == BuildSchema([req |-> requiredSchemas, gen |-> generatedSchemas,
                             schemas |-> schemas], Top.structs[Top.i])
       IN  /\ requiredSchemas' = g.req
           /\ generatedSchemas' = g.gen
           /\ schemas' = g.schemas
    /\ stack' = [stack EXCEPT ![Len(stack)].i = @ + 1, ![Len(stack)].nested = FALSE]
    /\ UNCHANGED <<ast, pc, si, fi, pending, annotationsCount, info, servers,
                   paths, tags, count, run, prev>>

\* A resolver loop that forgets every required name after a pass.
DropAllRequired(req, n) == <<>>

\* BuildDocument: g.requiredSchemas[count:len(g.requiredSchemas)].
DropRequired(req, n) == SubSeq(req, n + 1, Len(req))

\* addSchemasForStructsToDocument returns; when the outermost call returns,
\* BuildDocument drops the names that were required when the pass began.
Return ==
    /\ pc = "pass"
    /\ Top.i > Len(Top.structs)
    /\ stack' = SubSeq(stack, 1, Len(stack) - 1)
    /\ IF Len(stack) = 1
       THEN /\ requiredSchemas' = DropRequired(requiredSchemas, count)
            /\ pc' = "resolve"
       ELSE /\ requiredSchemas' = requiredSchemas
            /\ pc' = pc
    /\ UNCHANGED <<ast, si, fi, pending, annotationsCount, generatedSchemas, info,
                   servers, paths, schemas, tags, count, run, prev>>

\* BuildDocument: the resolver loop ends.
EndResolve ==
    /\ pc = "resolve"
    /\ Len(requiredSchemas) = 0
    /\ pc' = "promote"
    /\ UNCHANGED <<ast, si, fi, pending, annotationsCount, requiredSchemas,
                   generatedSchemas, info, servers, paths, schemas, tags, count,
                   stack, run, prev>>

-----------------------------------------------------------------------------
(* Post-processing *)

\* BuildDocument: `if len(d.Tags) == 1`.
PromoteTag ==
    /\ pc = "promote"
    /\ IF Len(tags) = 1
       THEN /\ info' = [title |-> IF info.title = "" /\ tags[1].name # ""
                                  THEN tags[1].name \o " API" ELSE info.title,
                        description |-> IF info.description = ""
                                        THEN tags[1].description
                                        ELSE info.description]
            /\ tags' = <<[tags[1] EXCEPT !.description = ""]>>
       ELSE UNCHANGED <<info, tags>>
    /\ pc' = "hoist"
    /\ UNCHANGED <<ast, si, fi, pending, annotationsCount, requiredSchemas,
                   generatedSchemas, servers, paths, schemas, count, stack, run, prev>>

\* BuildDocument: the servers of the operations are moved to the paths and
\* to the document.
HoistServers ==
    /\ pc = "hoist"
    /\ LET allServers == AllServers(paths, 1, <<>>)
           hoisted == [i \in 1..Len(paths) |-> HoistPath(paths[i])]
       IN  /\ servers' = IF Len(allServers) > 0 THEN allServers ELSE servers
           /\ paths' = IF Len(allServers) = 1
                       THEN [i \in 1..Len(paths) |-> [hoisted[i] EXCEPT !.servers = <<>>]]
                       ELSE hoisted
    /\ pc' = "sort"
    /\ UNCHANGED <<ast, si, fi, pending, annotationsCount, requiredSchemas,
                   generatedSchemas, info, schemas, tags, count, stack, run, prev>>

\* BuildDocument: the three sorts; the document is returned.
SortDocument ==
    /\ pc = "sort"
    /\ tags' = SortSlice(tags, "name")
    /\ paths' = SortSlice(paths, "path")
    /\ schemas' = SortSlice(schemas, "name")
    /\ pc' = "done"
    /\ UNCHANGED <<ast, si, fi, pending, annotationsCount, requiredSchemas,
                   generatedSchemas, info, servers, count, stack, run, prev>>

\* The plugin is run again on the same file: a new generator, a new document.
Rerun ==
    /\ pc = "done"
    /\ run = 1
    /\ run' = 2
    /\ prev' = Document
    /\ pc' = "option"
    /\ si' = 1
    /\ fi' = 0
    /\ pending' = {}
    /\ annotationsCount' = 0
    /\ requiredSchemas' = <<>>
    /\ generatedSchemas' = <<>>
    /\ info' = [title |-> "API", description |-> "API description"]
    /\ servers' = <<>>
    /\ paths' = <<>>
    /\ schemas' = <<>>
    /\ tags' = <<>>
    /\ count' = 0
    /\ stack' = <<>>
    /\ UNCHANGED ast

Next ==
    \/ DocumentOption
    \/ AddOperation \/ PanicInResponse \/ NextFunction \/ EndService \/ EndPaths
    \/ StartPass \/ Descend \/ Visit \/ Return \/ EndResolve
    \/ PromoteTag \/ HoistServers \/ SortDocument

Spec == Init /\ [][Next]_vars

\* Two runs of the plugin on the same file.
NextTwice == Next \/ Rerun

SpecTwice == Init /\ [][NextTwice]_vars

-----------------------------------------------------------------------------
(* Properties *)

Range(seq) == {seq[i] : i \in 1..Len(seq)}

\* The operations attached to the path items of the document.
Operations ==
    {paths[i].ops[m][1] :
        <<i, m>> \in {x \in (1..Len(paths)) \X Slots : paths[x[1]].ops[x[2]] # <<>>}}

\* The struct names referred to by the schemas of an operation.
OperationRefs(op) ==
    {p.schema.ref : p \in Range(op.parameters)}
    \cup UNION {{q.value.ref : q \in Range(c.props)} : c \in Range(op.requestBody)}
    \cup UNION {{h.schema.ref : h \in Range(r.headers)} : r \in Range(op.responses)}
    \cup UNION {{c.ref : c \in Range(r.content)} : r \in Range(op.responses)}

\* The struct names referred to by the properties of the component schemas.
ComponentRefs ==
    UNION {{q.value.ref : q \in Range(c.props)} : c \in Range(schemas)}

DocumentRefs == (UNION {OperationRefs(op) : op \in Operations} \cup ComponentRefs) \ {""}

SchemaNames == {c.name : c \in Range(schemas)}

\* C1: when BuildDocument has finished, every struct name a reference of the
\* document points to (in a parameter, a request body, a response or a
\* component schema, also inside lists) has an entry in Components.Schemas.
SchemaClosure == pc = "done" => DocumentRefs \subseteq SchemaNames

\* A finished document with three component schemas, one of them referred to
\* by a component schema only, not by any operation.
SchemaClosureWitness ==
    /\ pc = "done"
    /\ Len(schemas) = 3
    /\ \E x \in ComponentRefs \ {""} : \A op \in Operations : x \notin OperationRefs(op)

\* C2: in every state Components.Schemas holds at most one entry per name.
NoDuplicateSchema ==
    \A i, j \in 1..Len(schemas) : schemas[i].name = schemas[j].name => i = j

\* The resolver visits a struct that is required and already generated (it
\* was emitted for a response or by an earlier visit).
NoDuplicateSchemaWitness ==
    /\ pc = "pass"
    /\ Top.i <= Len(Top.structs)
    /\ Top.nested
    /\ Contains(requiredSchemas, Top.structs[Top.i])
    /\ Contains(generatedSchemas, Top.structs[Top.i])
    /\ Len(schemas) >= 2

\* C3: the schema resolution terminates: the recursion of
\* addSchemasForStructsToDocument never exhausts the stack, also when a
\* struct has a field of its own type or structs refer to each other in a
\* cycle.
ResolutionTerminates == pc # "overflow"


\* C4: two runs of BuildDocument on the same file return the same document,
\* whatever order the verb annotations of a method are visited in.
Determinism == (pc = "done" /\ run = 2) => Document = prev

\* The positions <<i, j>> of the functions in the services of the file.
FunctionIndex ==
    UNION {{<<i, j>> : j \in 1..Len(ast.services[i].functions)} :
              i \in 1..Len(ast.services)}

\* The service and the function an operation was built for.
Declared(op) ==
    CHOOSE x \in {[s |-> ast.services[y[1]], f |-> ast.services[y[1]].functions[y[2]]] :
                    y \in FunctionIndex} :
        x.s.name \o "_" \o x.f.name = op.operationId

InputFields(op) == GetStructDescriptor(Declared(op).f.arg).fields

\* The location annotations in the order buildOperation evaluates them.
LocationKeys == <<ApiQuery, ApiPath, ApiCookie, ApiHeader>>
LocationNames == <<"query", "path", "cookie", "header">>

IsSet(v, key) == v.ann[key] # Absent /\ v.ann[key] # ""
HasLocation(v) == \E k \in 1..4 : IsSet(v, LocationKeys[k])
LastLocation(v) ==
    CHOOSE k \in 1..4 : IsSet(v, LocationKeys[k]) /\ \A j \in (k + 1)..4 : ~IsSet(v, LocationKeys[j])

\* The input fields with a non-empty location annotation, in declaration order.
Located(op) == SelectSeq(InputFields(op), HasLocation)

\* C5: an operation under GET, HEAD or DELETE has no request body.
BodyExclusion ==
    \A i \in 1..Len(paths) : \A m \in {"GET", "HEAD", "DELETE"} :
        paths[i].ops[m] # <<>> => paths[i].ops[m][1].requestBody = <<>>

\* An operation under DELETE whose input struct has a field with api.body and
\* api.raw_body.
BodyExclusionWitness ==
    \E i \in 1..Len(paths) :
        /\ paths[i].ops["DELETE"] # <<>>
        /\ \E v \in Range(InputFields(paths[i].ops["DELETE"][1])) :
              v.ann[ApiBody] # Absent /\ v.ann[ApiRawBody] # Absent

\* C6 as stated: every input field that carries api.path has a parameter with
\* required = true in the operation.
PathAnnotatedRequired ==
    \A op \in Operations : \A v \in Range(InputFields(op)) :
        v.ann[ApiPath] # Absent =>
            \E p \in Range(op.parameters) :
                p.required /\ p.name \in {v.ann[LocationKeys[k]] : k \in 1..4}

\* C6, amended: every input field whose api.path annotation has a non-empty
\* value yields a parameter with required = true, whatever other
\* annotations the field carries and without any override.
PathParameterRequired ==
    \A op \in Operations : \A k \in 1..Len(Located(op)) :
        IsSet(Located(op)[k], ApiPath) =>
            k <= Len(op.parameters) /\ op.parameters[k].required

\* An operation with a path parameter built from a field that has a non-empty
\* api.path and no openapi.parameter override.
PathParameterRequiredWitness ==
    \E op \in Operations : \E k \in 1..Len(Located(op)) :
        /\ IsSet(Located(op)[k], ApiPath)
        /\ Located(op)[k].parameter = NoOverride
        /\ op.parameters[k].required
        /\ op.parameters[k].in = "path"

\* C7: a parameter whose location is query, cookie or header has
\* required = false unless an openapi.parameter override sets it.
OnlyPathRequired ==
    \A op \in Operations : \A k \in 1..Len(op.parameters) :
        (/\ k <= Len(Located(op))
         /\ op.parameters[k].in \in {"query", "cookie", "header"}
         /\ "required" \notin Located(op)[k].parameter.fields)
        => ~op.parameters[k].required

\* C8: every input field with a non-empty location annotation yields exactly
\* one parameter, at the location and with the name of the last non-empty
\* annotation in the order query, path, cookie, header; other fields yield
\* none.
LastLocationWins ==
    \A op \in Operations :
        /\ Len(op.parameters) = Len(Located(op))
        /\ \A k \in 1..Len(Located(op)) :
              /\ op.parameters[k].in = LocationNames[LastLocation(Located(op)[k])]
              /\ op.parameters[k].name =
                     Located(op)[k].ann[LocationKeys[LastLocation(Located(op)[k])]]

\* An operation whose first field carries all four location annotations.
LastLocationWinsWitness ==
    \E op \in Operations :
        /\ \A k \in 1..4 : IsSet(InputFields(op)[1], LocationKeys[k])
        /\ Len(op.parameters) = 2
        /\ op.parameters[1].in = "header"

\* The servers list buildOperation gives the operation.
DeclaredServers(op) == OperationServers(HostOf(Declared(op).s, Declared(op).f))

\* C9: if every operation of the document declares the same single server
\* URL, the final document has exactly that document-level server and no
\* path item and no operation carries a servers list.
SingleServerHoisted ==
    (/\ pc = "done"
     /\ Operations # {}
     /\ \E op \in Operations :
           /\ Len(DeclaredServers(op)) = 1
           /\ \A o \in Operations : DeclaredServers(o) = DeclaredServers(op))
    => /\ \A op \in Operations : servers = DeclaredServers(op)
       /\ \A i \in 1..Len(paths) : paths[i].servers = <<>>
       /\ \A op \in Operations : op.servers = <<>>

\* C10: in the returned document tags, path items and component schemas are
\* in ascending order of name.
OutputSorted ==
    pc = "done" =>
        /\ \A i \in 1..(Len(tags) - 1) : ~NameLess(tags[i + 1].name, tags[i].name)
        /\ \A i \in 1..(Len(paths) - 1) : ~PathLess(paths[i + 1].name, paths[i].name)
        /\ \A i \in 1..(Len(schemas) - 1) : ~NameLess(schemas[i + 1].name, schemas[i].name)

\* A returned document with the tags of both services, the second declared
\* service first, and two path items.
OutputSortedWitness ==
    /\ pc = "done"
    /\ Len(tags) = 2
    /\ tags[1].name = ast.services[2].name
    /\ Len(paths) = 2
    /\ Len(schemas) >= 1

\* C11: every tag of the document names a service that has at least one
\* operation attached to a verb slot of some path item, for every verb key
\* of HttpMethodAnnotations.
TagsHaveOperations ==
    \A i \in 1..Len(tags) : \E op \in Operations : tags[i].name \in Range(op.tags)

\* The request struct of an operation.
InputDesc(op) == GetStructDescriptor(Declared(op).f.arg)

\* The schemas the document holds for structs, each with the openapi.schema
\* override of its struct: the request body schemas and the component schemas.
StructSchemas ==
    UNION {{[s |-> c, ext |-> ParseStructOption(InputDesc(op)), inline |-> TRUE] :
                c \in Range(op.requestBody)} : op \in Operations}
    \cup {[s |-> c, ext |-> ParseStructOption(GetStructDescriptor(c.name)),
           inline |-> FALSE] : c \in Range(schemas)}

\* The structs whose component schema getResponseForStruct emits: the return
\* structs of the methods with a verb annotation.
ResponseStructs ==
    {ast.services[y[1]].functions[y[2]].ret :
        y \in {y \in FunctionIndex :
            DOMAIN ast.services[y[1]].functions[y[2]].ann
                \cap DOMAIN HttpMethodAnnotations # {}}}

\* The names of the properties of a schema that are in the list, in the
\* order of the properties.
RECURSIVE ListedProperties(_, _)
ListedProperties(props, list) ==
    IF props = <<>> THEN <<>>
    ELSE (IF Contains(list, Head(props).name) THEN <<Head(props).name>> ELSE <<>>)
         \o ListedProperties(Tail(props), list)

OutputFields(op) == GetStructDescriptor(Declared(op).f.ret).fields

\* The fields that carry one of the annotations keys, with any value.
Annotated(fields, keys) ==
    SelectSeq(fields, LAMBDA v : \E k \in keys : v.ann[k] # Absent)

\* The annotation of the bucket a content entry is for.
BucketOf(name) ==
    CASE name = "application/json" -> ApiBody
      [] name = "multipart/form-data" -> ApiForm
      [] name = "application/octet-stream" -> ApiRawBody

\* The properties props come from fields that carry one of the annotations
\* keys, at most one property per such field.
FromAnnotated(props, fields, keys) ==
    /\ Len(props) <= Len(Annotated(fields, keys))
    /\ \A q \in Range(props) :
          \E v \in Range(Annotated(fields, keys)) :
              q.name \in {v.name} \cup {v.ann[k] : k \in keys}

\* C13: a field of the input struct without location annotation yields no
\* parameter, one without body annotation no request body property, and a
\* field of the output struct without api.header, api.body, api.raw_body
\* neither a response header nor a property of the response content.
UnannotatedIgnored ==
    \A op \in Operations :
        /\ FromAnnotated(op.parameters, InputFields(op),
                         {ApiQuery, ApiPath, ApiCookie, ApiHeader})
        /\ \A c \in Range(op.requestBody) :
              FromAnnotated(c.props, InputFields(op), {BucketOf(c.name)})
        /\ \A r \in Range(op.responses) :
              /\ FromAnnotated(r.headers, OutputFields(op), {ApiHeader})
              /\ \A c \in Range(r.content) :
                    /\ Annotated(OutputFields(op), {BucketOf(c.name)}) # <<>>
                    /\ \A x \in Range(schemas) :
                          x.name = c.ref =>
                              FromAnnotated(x.props, OutputFields(op),
                                            {ApiBody, ApiRawBody})

\* An operation with a request body and a response content whose input
\* struct has a field with an openapi.parameter override and no annotation
\* and whose output struct has a field without annotation.
UnannotatedIgnoredWitness ==
    \E op \in Operations :
        /\ \E v \in Range(InputFields(op)) :
              v.ann = NoAnnotations /\ v.parameter = RequiredOverride
        /\ \E v \in Range(OutputFields(op)) : v.ann = NoAnnotations
        /\ op.requestBody # <<>>
        /\ \E r \in Range(op.responses) : \E c \in Range(r.content) :
              \E x \in Range(schemas) : x.name = c.ref

\* The verb slots whose operation may have a request body.
BodySlots == Slots \ {"GET", "HEAD", "DELETE"}

ContentTypes == {"application/json", "multipart/form-data", "application/octet-stream"}

\* The types the type-to-schema mapping has a schema for.
HasSchema(t) ==
    \/ t.wrap # <<>>
    \/ t.struct /\ ~GetStructDescriptorErr(t)
    \/ t.base \in {"string", "binary", "bool", "byte", "double", "i8", "i16", "i32", "i64"}

\* The property names of the fields that satisfy bucket, in declaration order.
BucketNames(fields, key, bucket(_)) ==
    LET F == SelectSeq(fields, bucket)
    IN  [i \in 1..Len(F) |-> IF F[i].ann[key] = "" THEN F[i].name ELSE F[i].ann[key]]

PropertyNames(props) == [i \in 1..Len(props) |-> props[i].name]

\* The request body of op has one content entry per bucket with a field
\* that satisfies qualifies, with the properties of those fields only.
BucketsMatch(op, qualifies(_, _)) ==
    /\ \A n \in ContentTypes :
          /\ BucketNames(InputFields(op), BucketOf(n),
                         LAMBDA v : qualifies(v, BucketOf(n))) # <<>>
             <=> \E c \in Range(op.requestBody) : c.name = n
          /\ \A i, j \in 1..Len(op.requestBody) :
                op.requestBody[i].name = op.requestBody[j].name => i = j
    /\ \A c \in Range(op.requestBody) :
          /\ c.name \in ContentTypes
          /\ PropertyNames(c.props) =
                 BucketNames(InputFields(op), BucketOf(c.name),
                             LAMBDA v : qualifies(v, BucketOf(c.name)))

\* C14 as stated: under a verb other than GET, HEAD and DELETE the request
\* body has a content entry for a bucket exactly when the input struct has a
\* field with the bucket's annotation, with the properties of those fields.
BodyBuckets ==
    \A i \in 1..Len(paths) : \A m \in BodySlots :
        paths[i].ops[m] # <<>> =>
            BucketsMatch(paths[i].ops[m][1], LAMBDA v, key : v.ann[key] # Absent)

\* C14, amended: the content entry of a bucket exists exactly when the input
\* struct has a field with the bucket's annotation whose type has a schema
\* (a primitive of the table, a struct whose descriptor is found, a list or
\* a map), and has the
\* properties of those fields only; without such a field in any bucket the
\* request body is omitted.
BodyBucketsOfMappedFields ==
    \A i \in 1..Len(paths) : \A m \in BodySlots :
        paths[i].ops[m] # <<>> =>
            BucketsMatch(paths[i].ops[m][1],
                         LAMBDA v, key : v.ann[key] # Absent /\ HasSchema(v.type))

\* An operation under PUT whose request body has the three content entries,
\* built from an input struct with a second field in no bucket.
BodyBucketsOfMappedFieldsWitness ==
    \E i \in 1..Len(paths) :
        /\ paths[i].ops["PUT"] # <<>>
        /\ Len(paths[i].ops["PUT"][1].requestBody) = 3
        /\ Len(InputFields(paths[i].ops["PUT"][1])) = 2

\* The response of op is the single response "200", its content entries
\* refer to the output struct, and the output struct has one component schema.
RespondsByReference(op) ==
    /\ Len(op.responses) = 1
    /\ op.responses[1].name = "200"
    /\ \A c \in Range(op.responses[1].content) : c.ref = Declared(op).f.ret
    /\ Cardinality({i \in 1..Len(schemas) : schemas[i].name = Declared(op).f.ret}) = 1

Functions == {ast.services[y[1]].functions[y[2]] : y \in FunctionIndex}

\* The verb annotation keys of a function.
VerbKeys(f) == DOMAIN f.ann \cap DOMAIN HttpMethodAnnotations

\* The path templates of the verb annotations of the file.
Templates == UNION {{f.ann[k] : k \in VerbKeys(f)} : f \in Functions}

\* The template p read from position i on, character by character: a colon
\* before a word character opens a brace, the brace is closed after the last
\* word character of the run, every other character is copied.
RECURSIVE Braced(_, _, _)
Braced(p, i, open) ==
    IF i > Len(p) THEN (IF open THEN <<"}">> ELSE <<>>)
    ELSE IF open
    THEN (IF IsWord(p[i]) THEN <<p[i]>> \o Braced(p, i + 1, TRUE)
          ELSE <<"}">> \o Braced(p, i, FALSE))
    ELSE IF p[i] = ":" /\ i < Len(p) /\ IsWord(p[i + 1])
    THEN <<"{", p[i + 1]>> \o Braced(p, i + 2, TRUE)
    ELSE <<p[i]>> \o Braced(p, i + 1, FALSE)

\* C16: the path of every path item is a template of the file with every
\* :name replaced by {name} and every other character unchanged, every
\* operation is stored under the rewritten template of its verb annotation,
\* and the returned document has a path item for every template.
PlaceholderRewrite ==
    /\ \A i \in 1..Len(paths) :
          /\ paths[i].name \in {Braced(t, 1, FALSE) : t \in Templates}
          /\ \A m \in Slots :
                paths[i].ops[m] # <<>> =>
                    \E k \in VerbKeys(Declared(paths[i].ops[m][1]).f) :
                        /\ HttpMethodAnnotations[k] = m
                        /\ Braced(Declared(paths[i].ops[m][1]).f.ann[k], 1, FALSE)
                               = paths[i].name
    /\ pc = "done" =>
          \A t \in Templates : \E i \in 1..Len(paths) : paths[i].name = Braced(t, 1, FALSE)

\* A returned document with the path /{a}/{b} built from /:a/:b and the path
\* /{ab_i}/ built from /:ab_i/.
PlaceholderRewriteWitness ==
    /\ pc = "done"
    /\ <<"/", ":", "a", "/", ":", "b">> \in Templates
    /\ <<"/", ":", "a", "b", "_", "i", "/">> \in Templates
    /\ \E i \in 1..Len(paths) : paths[i].name = <<"/", "{", "a", "}", "/", "{", "b", "}">>
    /\ \E i \in 1..Len(paths) : paths[i].name = <<"/", "{", "a", "b", "_", "i", "}", "/">>

\* Paths holds one path item per path and every verb slot at most one operation.
OnePathItemPerPath ==
    /\ \A i, j \in 1..Len(paths) : paths[i].name = paths[j].name => i = j
    /\ \A i \in 1..Len(paths) : \A m \in Slots : Len(paths[i].ops[m]) <= 1
    /\ pc \notin {"option", "paths", "panic"} =>
          {paths[i].name : i \in 1..Len(paths)} = {Braced(t, 1, FALSE) : t \in Templates}

\* A call of addOperationToDocument keeps the path items it finds where they
\* are and adds at most one, and none when the path has an item.
PathItemReused ==
    (pc = "paths" /\ pc' = "paths") =>
        /\ Len(paths) <= Len(paths') /\ Len(paths') <= Len(paths) + 1
        /\ \A i \in 1..Len(paths) : paths'[i].name = paths[i].name
        /\ Len(paths') = Len(paths) + 1 =>
              \A i \in 1..Len(paths) : paths[i].name # paths'[Len(paths')].name

\* C17: after any sequence of addOperationToDocument calls Paths holds
\* exactly one path item per distinct rewritten path: the first operation of
\* a path creates the item, every later one reuses it, and a verb slot holds
\* at most one operation.
PathItemsUnique == []OnePathItemPerPath /\ [][PathItemReused]_vars

\* One path item that holds the operations of two methods whose templates
\* differ and are rewritten to the same path.
PathItemsUniqueWitness ==
    /\ Len(paths) = 1
    /\ Cardinality(Templates) = 2
    /\ paths[1].ops["GET"] # <<>>
    /\ paths[1].ops["POST"] # <<>>
    /\ paths[1].ops["GET"][1].operationId # paths[1].ops["POST"][1].operationId

\* The operations of the path item item.
OperationsOf(item) == {item.ops[m][1] : m \in {m \in Slots : item.ops[m] # <<>>}}

\* All operations of item declared one and the same server URL.
AgreeOnServer(item) ==
    \E op \in OperationsOf(item) :
        /\ Len(DeclaredServers(op)) = 1
        /\ \A o \in OperationsOf(item) : DeclaredServers(o) = DeclaredServers(op)

\* The server URLs the operations of the document declared.
DeclaredURLs == UNION {Range(DeclaredServers(op)) : op \in Operations}

\* C18: in the returned document a path item has a path-level server only
\* if all its operations declared one and the same server URL and the
\* document has more than one server URL; then none of its operations keeps
\* a servers list; a path whose operations disagree has no path-level
\* server and its operations keep their servers.
PathServerHoisted ==
    pc = "done" =>
        \A i \in 1..Len(paths) :
            /\ paths[i].servers # <<>> =>
                  /\ AgreeOnServer(paths[i])
                  /\ Cardinality(DeclaredURLs) > 1
                  /\ \A op \in OperationsOf(paths[i]) : op.servers = <<>>
            /\ (OperationsOf(paths[i]) # {} /\ ~AgreeOnServer(paths[i])) =>
                  /\ paths[i].servers = <<>>
                  /\ \A op \in OperationsOf(paths[i]) : op.servers = DeclaredServers(op)

\* What the promotion of the single tag may change: the title only when Info
\* has none, the description only when Info has none, and the description of
\* the tag only when Info now holds it.
PromotionStep ==
    (pc = "promote" /\ pc' = "hoist") =>
        IF Len(tags) = 1
        THEN /\ info'.title = IF info.title = "" /\ tags[1].name # ""
                               THEN tags[1].name \o " API" ELSE info.title
             /\ info'.description = IF info.description = ""
                                    THEN tags[1].description ELSE info.description
             /\ tags'[1].name = tags[1].name
             /\ \/ tags'[1].description = tags[1].description
                \/ /\ tags'[1].description = ""
                   /\ info'.description = tags[1].description
        ELSE info' = info /\ tags' = tags

\* C19: with exactly one tag its name and description are promoted to Info
\* only where Info has none, and the description of the tag is cleared only
\* when Info holds it, so the description of the service stays in the
\* document; with no tag or several tags Info and the tags do not change.
SingleTagPromotion == [][PromotionStep]_vars

\* C20: BuildDocument never ends in a fault: for every input, a method with
\* a verb annotation whose return type is not a struct included, the
\* generation goes on and returns a document.
BuildDocumentReturns == pc # "panic"

\* The type t is a struct that cannot be looked up, or a list or map of one.
Unresolvable(t) == t.struct /\ GetStructDescriptorErr(t)

\* The names a property built from the field v can have.
NamesOf(v) ==
    {v.name} \cup ({v.ann[k] : k \in {ApiHeader, ApiBody, ApiForm, ApiRawBody}}
                      \ {Absent, ""})

\* None of the properties props comes from a field of fields whose type
\* cannot be resolved.
OmitsUnresolved(props, fields) ==
    \A v \in Range(fields) :
        Unresolvable(v.type) => \A q \in Range(props) : q.name \notin NamesOf(v)

\* C21: a field whose struct type cannot be looked up, directly or as the
\* value type of a list or map, has no property in the request body schema
\* of an operation and none in the component schema of its struct.
UnresolvedOmitted ==
    pc = "done" =>
        /\ \A op \in Operations : \A c \in Range(op.requestBody) :
              OmitsUnresolved(c.props, InputFields(op))
        /\ \A x \in Range(schemas) :
              HasStructDescriptor(x.name) =>
                  OmitsUnresolved(x.props, GetStructDescriptor(x.name).fields)

\* The states in which the servers of the operations are as buildOperation
\* set them: the hoisting has not run.
BeforeHoisting == pc \in {"paths", "resolve", "pass", "promote", "hoist", "panic", "overflow"}

\* The host of the operation op: api.baseurl of its method if not empty,
\* else api.base_domain of its service.
HostOfOperation(op) ==
    IF Declared(op).f.baseurl # NoHost THEN Declared(op).f.baseurl
    ELSE Declared(op).s.base_domain

\* C22 as stated: an operation with a host has one server, the host itself
\* when the host has a scheme and "http://" + host when it has none; without
\* host it has no servers list.
OperationServerURL ==
    BeforeHoisting =>
        \A op \in Operations :
            LET host == HostOfOperation(op) IN
            op.servers = IF host = NoHost THEN <<>>
                         ELSE IF host.scheme # "" THEN <<host>>
                         ELSE <<[scheme |-> "http://", rest |-> host.rest]>>

\* C22, amended: the URL is the host itself when the host begins with
\* http:// or https://, and "http://" + host for every other host, one with
\* another scheme included.
OperationServerURLHttp ==
    BeforeHoisting =>
        \A op \in Operations :
            LET host == HostOfOperation(op) IN
            op.servers = IF host = NoHost THEN <<>>
                         ELSE IF host.scheme \in {"http://", "https://"} THEN <<host>>
                         ELSE <<[scheme |-> "http://", rest |-> host.scheme \o host.rest]>>

\* Three kinds of operation are in the document before the hoisting: one
\* whose api.baseurl has the https scheme and whose service has another
\* api.base_domain, one with a host without scheme, one that falls back to
\* the api.base_domain, which has another scheme, and so has the server
\* http://ws://h3.
OperationServerURLHttpWitness ==
    /\ pc = "hoist"
    /\ \E o1, o2, o3 \in Operations :
          /\ Declared(o1).f.baseurl = Host2 /\ Declared(o1).s.base_domain = Host3
          /\ o1.servers = <<Host2>>
          /\ Declared(o2).f.baseurl = Host1
          /\ o2.servers = <<[scheme |-> "http://", rest |-> "h1"]>>
          /\ Declared(o3).f.baseurl = NoHost
          /\ o3.servers = <<[scheme |-> "http://", rest |-> "ws://h3"]>>

\* The table of the claim: the type and the format of the schema of a name.
TypeTable ==
    ("string" :> <<"string", "">>) @@ ("binary" :> <<"string", "binary">>) @@
    ("bool" :> <<"boolean", "">>) @@ ("byte" :> <<"string", "byte">>) @@
    ("double" :> <<"number", "double">>) @@ ("i8" :> <<"integer", "int8">>) @@
    ("i16" :> <<"integer", "int16">>) @@ ("i32" :> <<"integer", "int32">>) @@
    ("i64" :> <<"integer", "int64">>)

\* The schema the claim gives the type t: an array per list and an object
\* with additionalProperties per map, around the reference to a struct or
\* the schema of the table.
MappingOf(t) ==
    [wrap |-> [i \in 1..Len(t.wrap) |-> IF t.wrap[i] = "list" THEN "array" ELSE "object"],
     ref |-> IF t.struct THEN t.base ELSE "",
     type |-> IF t.struct THEN "" ELSE TypeTable[t.base][1],
     format |-> IF t.struct THEN "" ELSE TypeTable[t.base][2]]

\* The types of the claim: a name of the table or a struct that is found,
\* under any lists and maps.
Mapped(t) ==
    IF t.struct THEN ~GetStructDescriptorErr(t) /\ HasStructDescriptor(t.base)
    ELSE t.base \in DOMAIN TypeTable

\* C23: the api.body property of a field whose type is a name of the table
\* or a struct, under any lists and maps, is the schema of the table or the
\* reference to the struct inside one array per list and one object per map;
\* the struct is recorded as required and its component schema is not built
\* while the operation is built, only by the dependency pass.
TypeMapping ==
    \A op \in Operations : \A c \in Range(op.requestBody) :
        c.name = "application/json" =>
            LET F == SelectSeq(InputFields(op),
                               LAMBDA v : v.ann[ApiBody] # Absent /\ Mapped(v.type))
            IN  /\ \A i \in 1..Len(F) :
                      /\ \E q \in Range(c.props) :
                            /\ q.name = (IF F[i].ann[ApiBody] = "" THEN F[i].name
                                         ELSE F[i].ann[ApiBody])
                            /\ q.value = MappingOf(F[i].type)
                      /\ (F[i].type.struct /\ pc = "paths"
                             /\ Declared(op).f.ret # F[i].type.base) =>
                            /\ Contains(requiredSchemas, F[i].type.base)
                            /\ ~Contains(generatedSchemas, F[i].type.base)
                      /\ (F[i].type.struct /\ pc = "done") =>
                            Contains(generatedSchemas, F[i].type.base)

\* The document is returned for a field of type list<map<string, B>>: its
\* property is an array of objects of references to B, and B has a
\* component schema.
TypeMappingWitness ==
    /\ pc = "done"
    /\ \E op \in Operations : \E c \in Range(op.requestBody) :
          \E q \in Range(c.props) :
              /\ q.value = [wrap |-> <<"array", "object">>, ref |-> "B",
                            type |-> "", format |-> ""]
              /\ InputFields(op)[1].type = TList(TMap(TStruct("B")))
    /\ \E x \in Range(schemas) : x.name = "B"

InitialInfo == [title |-> "API", description |-> "API description"]

\* The payloads of the services and of the structs that carry
\* openapi.document, services first, each group in declaration order.
CarriedPayloads ==
    SelectSeq([i \in 1..Len(ast.services) |->
                  IF HasDocumentAnnotation(ast.services[i])
                  THEN ast.services[i].document ELSE NotCarried],
              LAMBDA x : x # NotCarried)
    \o SelectSeq([i \in 1..Len(ast.structs) |->
                     IF HasDocumentAnnotation(ast.structs[i])
                     THEN ast.structs[i].document ELSE NotCarried],
                 LAMBDA x : x # NotCarried)

\* Info after the payload of the first carrier alone was put on the initial
\* Info; the initial Info without carrier.
HonouredInfo ==
    IF CarriedPayloads = <<>> THEN InitialInfo
    ELSE [title |-> IF "title" \in Head(CarriedPayloads).fields
                    THEN Head(CarriedPayloads).title ELSE InitialInfo.title,
          description |-> IF "description" \in Head(CarriedPayloads).fields
                          THEN Head(CarriedPayloads).description
                          ELSE InitialInfo.description]

\* Before the merge the document is the initial one; from the merge to the
\* promotion of the single tag Info is the initial Info with the payload of
\* the first carrier.
OverrideHonoured ==
    /\ pc = "option" =>
          /\ info = InitialInfo
          /\ paths = <<>> /\ schemas = <<>> /\ tags = <<>> /\ servers = <<>>
          /\ requiredSchemas = <<>> /\ generatedSchemas = <<>>
    /\ pc \in {"paths", "resolve", "pass", "promote", "panic", "overflow"} =>
          info = HonouredInfo

\* Paths, tags and schemas are generated only after the merge, and Info is
\* changed by the merge and by the promotion of the single tag only.
MergedOnceBefore ==
    /\ (paths' # paths \/ tags' # tags \/ schemas' # schemas) => pc # "option"
    /\ info' # info => (pc = "option" \/ pc = "promote")

\* C24: one openapi.document carrier at most is honoured, the first service
\* that has the annotation and a struct only when no service has it; its
\* payload is merged onto the initial document once, before any path, tag
\* or schema is generated; without carrier the initial document is unchanged
\* when the path generation begins.
DocumentOverride == []OverrideHonoured /\ [][MergedOnceBefore]_vars

\* The paths are generated for a file whose two services and two structs
\* all carry a payload, the first service one with a description only and
\* the second service one with a title: Info has the description of the
\* first service and the initial title.
DocumentOverrideWitness ==
    /\ pc = "resolve"
    /\ Len(paths) = 2
    /\ Len(CarriedPayloads) = 4
    /\ Head(CarriedPayloads).fields = {"description"}
    /\ CarriedPayloads[2].fields = {"title"}
    /\ info = [title |-> "API", description |-> "d2"]

\* The verb slots of the document that hold an operation.
FilledSlots ==
    {x \in (1..Len(paths)) \X Slots : paths[x[1]].ops[x[2]] # <<>>}

\* C25: in the returned document no two operations have the same
\* operationId, a method with several verb annotations included.
OperationIdsUnique ==
    pc = "done" =>
        \A x, y \in FilledSlots :
            paths[x[1]].ops[x[2]][1].operationId = paths[y[1]].ops[y[2]][1].operationId
                => x = y

\* The bindings of the file: a function, its service and one of its verb
\* annotations.
Bindings ==
    UNION {{[s |-> ast.services[y[1]], f |-> ast.services[y[1]].functions[y[2]],
             key |-> k] :
               k \in DOMAIN ast.services[y[1]].functions[y[2]].ann
                        \cap DOMAIN HttpMethodAnnotations} : y \in FunctionIndex}

\* The operation of the binding b is in the verb slot of its rewritten path.
Attached(b) ==
    \E i \in 1..Len(paths) :
        /\ paths[i].name = Braced(b.f.ann[b.key], 1, FALSE)
        /\ HttpMethodAnnotations[b.key] \in Slots
        /\ paths[i].ops[HttpMethodAnnotations[b.key]] # <<>>
        /\ paths[i].ops[HttpMethodAnnotations[b.key]][1].operationId
               = b.s.name \o "_" \o b.f.name

\* C26: the operation of every binding of a method to a verb and a path is
\* in the returned document, in the verb slot of the rewritten path, also
\* when two methods bind the same verb to the same rewritten path.
OperationsKept == pc = "done" => \A b \in Bindings : Attached(b)

\* The fields of the struct named name whose type has a schema.
MappedFields(name) ==
    SelectSeq(GetStructDescriptor(name).fields, LAMBDA v : HasSchema(v.type))

\* C27: in the returned document the component schema of a struct has one
\* property per field of the struct whose type has a schema, in the order
\* of the fields, whether the response of a method or the dependency pass
\* emitted it.
ComponentsComplete ==
    pc = "done" =>
        \A x \in Range(schemas) :
            HasStructDescriptor(x.name) =>
                /\ Len(x.props) = Len(MappedFields(x.name))
                /\ \A i \in 1..Len(x.props) :
                      x.props[i].name \in NamesOf(MappedFields(x.name)[i])

\* C28: once the paths are generated, and in the returned document after
\* the promotion of the single tag and the sort, every tag name of an
\* operation is the name of exactly one entry of the tags of the document.
TagsDeclared ==
    pc \in {"resolve", "pass", "promote", "hoist", "sort", "done", "overflow"} =>
        \A op \in Operations : \A t \in Range(op.tags) :
            Cardinality({i \in 1..Len(tags) : tags[i].name = t}) = 1

\* The returned document of a file whose services T and S, declared in this
\* order, both have an operation: the tags are S and T.
TagsDeclaredWitness ==
    /\ pc = "done"
    /\ Len(ast.services) = 2
    /\ [i \in 1..Len(tags) |-> tags[i].name] = <<"S", "T">>
    /\ \E o1, o2 \in Operations : o1.tags = <<"S">> /\ o2.tags = <<"T">>

====
